---- MODULE Spec2Model ----
(***************************************************************************)
(* GitStory: the DiffViewer component and its two diff implementations.    *)
(*                                                                         *)
(*   - computeDiff, the index-aligned diff of the current DiffViewer       *)
(*     (a for loop over the two sides truncated to MAX_LINES lines);       *)
(*   - the inline while loop of the earlier DiffViewer, which advances     *)
(*     beforeIdx / afterIdx by membership tests (Array.includes).          *)
(*                                                                         *)
(* A JavaScript string is a sequence of one-character strings; the values  *)
(* undefined and null are two values that are no such sequence.            *)
(***************************************************************************)
EXTENDS Integers, Sequences, FiniteSets, TLC

(***************************************************************************)
(* Bounds of the model.                                                    *)
(***************************************************************************)
\* Short texts have 1 .. MaxLines lines.
MaxLines == 3
\* Long texts have MAX_LINES lines followed by 0 .. LongTail further lines.
LongTail == 1
\* The inline while loop is followed for at most 2 * MaxLines + InlineSlack pushes.
InlineSlack == 2

(***************************************************************************)
(* JavaScript values.                                                      *)
(***************************************************************************)
NL == "\n"
Chars == {"a", "b"}
Undefined == <<"undefined">>
Null == <<"null">>

IsString(v) == v # Undefined /\ v # Null

\* v || d
OrElse_NoCoercion(v, d) == v
OrElse(v, d) == IF v = Undefined \/ v = Null \/ v = <<>> THEN d ELSE v

\* a destructured parameter with a default value: `v = d`
Default(v, d) == IF v = Undefined THEN d ELSE v

\* arr[i], i counted from 0
At(arr, i) == IF i >= 0 /\ i < Len(arr) THEN arr[i + 1] ELSE Undefined

Min(x, y) == IF x <= y THEN x ELSE y
Max(x, y) == IF x >= y THEN x ELSE y

\* arr.slice(0, n)
Slice_NoLimit(arr, n) == arr
Slice_OneMore(arr, n) == SubSeq(arr, 1, Min(n + 1, Len(arr)))
Slice(arr, n) == SubSeq(arr, 1, Min(n, Len(arr)))

\* s.split("\n"): the pieces of s between the line feeds, in order; s has one
\* piece more than it has line feeds, so the result is never empty.
Split(s) ==
    LET idx == [p \in 1..Len(s) |-> p]
        feeds == SelectSeq(idx, LAMBDA p : s[p] = NL)
        n == Len(feeds)
        first(k) == IF k = 1 THEN 1 ELSE feeds[k - 1] + 1
        last(k) == IF k = n + 1 THEN Len(s) ELSE feeds[k] - 1
    IN  [k \in 1..(n + 1) |-> SubSeq(s, first(k), last(k))]

\* arr.includes(x)
Includes(arr, x) == \E k \in 1..Len(arr) : arr[k] = x

(***************************************************************************)
(* The inputs: the texts a caller can pass as beforeCode / afterCode.      *)
(***************************************************************************)
LineSet == {<<>>} \cup {<<c>> : c \in Chars}

RECURSIVE Join(_)
Join(lines) ==
    IF Len(lines) = 1 THEN lines[1]
    ELSE lines[1] \o <<NL>> \o Join(Tail(lines))

ShortLineSeqs == UNION {[1..n -> LineSet] : n \in 1..MaxLines}
ShortTexts == {Join(ls) : ls \in ShortLineSeqs}

\* Limit to prevent hangs (computeDiff)
MAX_LINES == 500

\* n lines, each the one character c
Pad(c, n) == [k \in 1..(2 * n - 1) |-> IF k % 2 = 0 THEN NL ELSE c]
\* MAX_LINES lines, each the one character c
PadText(c) == Pad(c, MAX_LINES)
\* the text t followed by n lines "b"
WithTail(t, n) == t \o [k \in 1..(2 * n) |-> IF k % 2 = 1 THEN NL ELSE "b"]
LongTexts == {WithTail(PadText(c), n) : c \in Chars, n \in 0..LongTail}

\* texts that just fill the panel (720 pixels at 24 pixels a line), or just not
MidTexts == {Pad("a", 30 + d) : d \in 0..1}

\* what a caller can leave out or pass for a text prop
SmallInputs == ShortTexts \cup {Undefined, Null}
InputPairs ==
    (SmallInputs \X SmallInputs) \cup (LongTexts \X LongTexts)
        \cup (LongTexts \X {<<>>}) \cup ({<<>>} \X LongTexts)
        \cup (MidTexts \X MidTexts)
FileNames == {Undefined, <<"f">>}

(***************************************************************************)
(* State.                                                                  *)
(***************************************************************************)
VARIABLES
    fileName, beforeCode, afterCode, \* the props of the DiffViewer
    pc,                              \* where the render is
    beforeLines, afterLines,         \* DiffViewer: the lines of the two texts
    diffLines,                       \* DiffViewer: the diff that is rendered
    before, after, i, result,        \* computeDiff: locals
    beforeIdx, afterIdx,             \* inline while loop: locals
    view,                            \* what the component returned
    thrown,                          \* the exception raised, if any
    annotations,                     \* the annotations prop ([] while absent)
    viewMode,                        \* DiffViewer: useState("split")
    memoDeps,                        \* useMemo: the deps diffLines was computed for
    returned, remembered,            \* direct calls: the last result, an earlier call
    localStorage,                    \* window.localStorage: key -> <<>> or <<value>>
    url, error, isImporting,         \* ImportCodeModal: useState
    isOpen,                          \* ImportCodeModal: the isOpen prop
    importPc,                        \* where handleImport is
    dispatched,                      \* the events window.dispatchEvent was given
    threadId,                        \* MessageThreadFull: thread?.id
    previousThreadId,                \* MessageThreadFull: previousThreadId.current
    effectDeps,                      \* the thread?.id the switch effect last ran for
    seenIds,                         \* the ids the switch effect has run for, in order
    imported,                        \* the repository of the last import, until
                                     \* the user changes thread
    loadingFile, loadingHeatmap,     \* CommitTimeline: useState
    renderedLoadingFile,             \* the loadingFile handleFileClick closes over
    value,                           \* the thread input's value (setValue)
    submitted,                       \* what submit has sent, and who called it
    handlers,                        \* the click handlers that have not finished
    tool,                            \* the GitHub tool that runs, with its locals
    toolPc,                          \* where it is
    requests,                        \* the fetches it has issued
    toolResult                       \* what it returned: <<>> or <<result>>

diffVars == <<fileName, beforeCode, afterCode, pc, beforeLines, afterLines,
              diffLines, before, after, i, result, beforeIdx, afterIdx, view,
              thrown, annotations, viewMode, memoDeps, returned, remembered>>

modalVars == <<url, error, isImporting, isOpen, importPc>>
threadVars == <<threadId, previousThreadId, effectDeps, seenIds>>

timelineVars == <<loadingFile, loadingHeatmap, renderedLoadingFile, value,
                  submitted, handlers>>
toolVars == <<tool, toolPc, requests, toolResult>>

appVars == <<localStorage, modalVars, dispatched, threadVars, imported,
             timelineVars, toolVars>>
\* what the modal and the thread effects leave alone
outsideModal == <<diffVars, timelineVars, toolVars>>

vars == <<diffVars, appVars>>

\* what the one-render actions of the component leave alone
uiVars == <<annotations, viewMode>>
callVars == <<returned, remembered>>

DiffLine(type, lineNumber, content) ==
    [type |-> type, lineNumber |-> lineNumber, content |-> content]

\* The rest of the application while only a DiffViewer is looked at.
StorageKeys == {"gitstory-repo", "gitstory-auth"}
\* A text typed into the modal: surrounding whitespace, a scheme or none, the
\* host as its labels, the path as its segments (a segment as its pieces, so
\* that a ".git" suffix is a last piece), and trailing slashes.
UrlText(spaces, scheme, host, path, slashes) ==
    [spaces |-> spaces, scheme |-> scheme, host |-> host, path |-> path,
     slashes |-> slashes]
NoUrl == UrlText(FALSE, "", <<>>, <<>>, 0)
NoTool == [name |-> "none", token |-> <<>>, repoConfig |-> <<>>, branch |-> <<>>]
TimelineIdle ==
    /\ loadingFile = Null /\ loadingHeatmap = Null
    /\ renderedLoadingFile = Null
    /\ value = <<>>
    /\ submitted = <<>>
    /\ handlers = <<>>
ToolIdle ==
    /\ tool = NoTool /\ toolPc = "idle" /\ requests = 0 /\ toolResult = <<>>
AppIdle ==
    /\ localStorage = [key \in StorageKeys |-> <<>>]
    /\ url = NoUrl /\ error = <<>> /\ isImporting = FALSE
    /\ isOpen = FALSE /\ importPc = "idle"
    /\ dispatched = <<>>
    /\ threadId = Undefined /\ previousThreadId = Null
    /\ effectDeps = <<"unmounted">> /\ seenIds = <<>>
    /\ imported = <<>>
    /\ TimelineIdle
    /\ ToolIdle

Init ==
    /\ \E pair \in InputPairs : beforeCode = pair[1] /\ afterCode = pair[2]
    /\ fileName \in FileNames
    /\ pc = "props"
    /\ beforeLines = <<>> /\ afterLines = <<>> /\ diffLines = <<>>
    /\ before = <<>> /\ after = <<>> /\ i = 0 /\ result = <<>>
    /\ beforeIdx = 0 /\ afterIdx = 0
    /\ view = "none"
    /\ thrown = "none"
    /\ annotations = <<>>
    /\ viewMode = "split"
    /\ memoDeps = <<>>
    /\ returned = <<>> /\ remembered = <<>>
    /\ AppIdle

(***************************************************************************)
(* computeDiff and the DiffViewer that uses it.                            *)
(***************************************************************************)
\* The records one iteration of computeDiff's for loop pushes.
ForBody_PairSwapped(b, a, n) ==
    LET beforeLine == At(b, n)
        afterLine == At(a, n)
    IN  IF beforeLine = Undefined /\ afterLine # Undefined
        THEN <<DiffLine("added", n + 1, afterLine)>>
        ELSE IF beforeLine # Undefined /\ afterLine = Undefined
        THEN <<DiffLine("removed", n + 1, beforeLine)>>
        ELSE IF beforeLine = afterLine
        THEN <<DiffLine("unchanged", n + 1, OrElse(afterLine, <<>>))>>
        ELSE <<DiffLine("added", n + 1, OrElse(afterLine, <<>>)),
               DiffLine("removed", n + 1, OrElse(beforeLine, <<>>))>>
ForBody_NoRemoved(b, a, n) ==
    LET beforeLine == At(b, n)
        afterLine == At(a, n)
    IN  IF beforeLine = Undefined /\ afterLine # Undefined
        THEN <<DiffLine("added", n + 1, afterLine)>>
        ELSE IF beforeLine # Undefined /\ afterLine = Undefined
        THEN <<DiffLine("removed", n + 1, beforeLine)>>
        ELSE IF beforeLine = afterLine
        THEN <<DiffLine("unchanged", n + 1, OrElse(afterLine, <<>>))>>
        ELSE <<DiffLine("added", n + 1, OrElse(afterLine, <<>>))>>
ForBody_ZeroBased(b, a, n) ==
    LET beforeLine == At(b, n)
        afterLine == At(a, n)
    IN  IF beforeLine = Undefined /\ afterLine # Undefined
        THEN <<DiffLine("added", n, afterLine)>>
        ELSE IF beforeLine # Undefined /\ afterLine = Undefined
        THEN <<DiffLine("removed", n, beforeLine)>>
        ELSE IF beforeLine = afterLine
        THEN <<DiffLine("unchanged", n + 1, OrElse(afterLine, <<>>))>>
        ELSE <<DiffLine("removed", n + 1, OrElse(beforeLine, <<>>)),
               DiffLine("added", n + 1, OrElse(afterLine, <<>>))>>
ForBody(b, a, n) ==
    LET beforeLine == At(b, n)
        afterLine == At(a, n)
    IN  IF beforeLine = Undefined /\ afterLine # Undefined
        THEN <<DiffLine("added", n + 1, afterLine)>>
        ELSE IF beforeLine # Undefined /\ afterLine = Undefined
        THEN <<DiffLine("removed", n + 1, beforeLine)>>
        ELSE IF beforeLine = afterLine
        THEN <<DiffLine("unchanged", n + 1, OrElse(afterLine, <<>>))>>
        ELSE <<DiffLine("removed", n + 1, OrElse(beforeLine, <<>>)),
               DiffLine("added", n + 1, OrElse(afterLine, <<>>))>>

\* const maxLen = Math.max(before.length, after.length)
maxLen == Max(Len(before), Len(after))

\* useMemo(() => computeDiff(beforeCode, afterCode), [beforeCode, afterCode]):
\* the dependencies of this render, and whether they are the remembered ones
\* (no dependencies are remembered before the first render).
deps == <<Default(beforeCode, <<>>), Default(afterCode, <<>>)>>
DepsEqual_FirstOnly(old, new) == Len(old) = 2 /\ old[1] = new[1]
DepsEqual(old, new) == Len(old) = 2 /\ old[1] = new[1] /\ old[2] = new[2]

\* The skeleton is returned while nothing has streamed in.
Placeholder_WithoutFileName(f, b, a) ==
    /\ OrElse(b, <<>>) = <<>>
    /\ OrElse(a, <<>>) = <<>>
Placeholder(f, b, a) ==
    /\ OrElse(f, <<>>) = <<>>
    /\ OrElse(b, <<>>) = <<>>
    /\ OrElse(a, <<>>) = <<>>

\* const result: DiffLine[] = []: every call starts from a fresh array.
NewResult_Retained == result
NewResult == <<>>

\* A render of the DiffViewer up to computeDiff's loop: the props are bound
\* (defaults for the absent ones), useMemo calls computeDiff, which splits and
\* truncates the two texts. String.prototype.split on a value that is no string
\* raises a TypeError.
DiffViewer ==
    /\ pc = "props"
    /\ ~DepsEqual(memoDeps, deps)
    /\ LET b == OrElse(Default(beforeCode, <<>>), <<>>)
           a == OrElse(Default(afterCode, <<>>), <<>>)
       IN  IF IsString(b) /\ IsString(a)
           THEN /\ before' = Slice(Split(b), MAX_LINES)
                /\ after' = Slice(Split(a), MAX_LINES)
                /\ i' = 0
                /\ result' = NewResult
                /\ pc' = "for"
                /\ UNCHANGED thrown
           ELSE /\ thrown' = "TypeError"
                /\ pc' = "thrown"
                /\ UNCHANGED <<before, after, i, result>>
    /\ UNCHANGED <<fileName, beforeCode, afterCode, beforeLines, afterLines,
                   diffLines, beforeIdx, afterIdx, view>>
    /\ UNCHANGED <<uiVars, memoDeps, callVars>>
    /\ UNCHANGED appVars

\* One iteration of the for loop.
ForStep ==
    /\ pc = "for"
    /\ i < maxLen
    /\ result' = result \o ForBody(before, after, i)
    /\ i' = i + 1
    /\ UNCHANGED <<fileName, beforeCode, afterCode, pc, beforeLines, afterLines,
                   diffLines, before, after, beforeIdx, afterIdx, view, thrown>>
    /\ UNCHANGED <<uiVars, memoDeps, callVars>>
    /\ UNCHANGED appVars

\* The loop ends, computeDiff returns and the render goes on: the memoized
\* line arrays, then the skeleton or the diff.
ForReturn ==
    /\ pc = "for"
    /\ ~(i < maxLen)
    /\ diffLines' = result
    /\ beforeLines' = Split(OrElse(Default(beforeCode, <<>>), <<>>))
    /\ afterLines' = Split(OrElse(Default(afterCode, <<>>), <<>>))
    /\ view' = IF Placeholder(Default(fileName, <<>>), Default(beforeCode, <<>>),
                              Default(afterCode, <<>>))
               THEN "skeleton" ELSE "diff"
    /\ pc' = "rendered"
    /\ memoDeps' = deps
    /\ UNCHANGED <<fileName, beforeCode, afterCode, before, after, i, result,
                   beforeIdx, afterIdx, thrown>>
    /\ UNCHANGED <<uiVars, callVars>>
    /\ UNCHANGED appVars

\* A render whose dependencies are the remembered ones: useMemo hands back the
\* remembered diffLines, computeDiff is not called, and the render goes on.
DiffViewerMemoized ==
    /\ pc = "props"
    /\ DepsEqual(memoDeps, deps)
    /\ beforeLines' = Split(OrElse(Default(beforeCode, <<>>), <<>>))
    /\ afterLines' = Split(OrElse(Default(afterCode, <<>>), <<>>))
    /\ view' = IF Placeholder(Default(fileName, <<>>), Default(beforeCode, <<>>),
                              Default(afterCode, <<>>))
               THEN "skeleton" ELSE "diff"
    /\ pc' = "rendered"
    /\ UNCHANGED <<fileName, beforeCode, afterCode, diffLines, before, after, i,
                   result, beforeIdx, afterIdx, thrown>>
    /\ UNCHANGED <<uiVars, memoDeps, callVars>>
    /\ UNCHANGED appVars

\* the annotations a caller passes: none, or one on a line
Annotation(line, message) == [line |-> line, message |-> message]
AnnotationLines == {1, MAX_LINES + 1}
AnnotationInputs == {<<>>} \cup {<<Annotation(n, "note")>> : n \in AnnotationLines}

\* A click on Split or Unified: setViewMode, and the diff is rendered again from
\* the memoized values.
setViewMode ==
    /\ pc = "rendered"
    /\ view = "diff"
    /\ \E mode \in {"split", "unified"} : viewMode' = mode
    /\ UNCHANGED <<fileName, beforeCode, afterCode, pc, beforeLines, afterLines,
                   diffLines, before, after, i, result, beforeIdx, afterIdx, view,
                   thrown, annotations, memoDeps, callVars>>
    /\ UNCHANGED appVars

\* The annotations prop streams in; the texts are the same, so the render that
\* follows takes diffLines and the line arrays from their memos.
AnnotationsArrive ==
    /\ pc = "rendered"
    /\ \E anns \in AnnotationInputs : annotations' = anns
    /\ UNCHANGED <<fileName, beforeCode, afterCode, pc, beforeLines, afterLines,
                   diffLines, before, after, i, result, beforeIdx, afterIdx, view,
                   thrown, viewMode, memoDeps, callVars>>
    /\ UNCHANGED appVars

Next == DiffViewer \/ ForStep \/ ForReturn \/ setViewMode \/ AnnotationsArrive

Spec == Init /\ [][Next]_vars

(***************************************************************************)
(* The DiffViewer re-rendered as its parent streams new props in.          *)
(***************************************************************************)
\* the texts the parent passes, in turn, as beforeCode and afterCode
MemoTexts ==
    {Undefined, Null, <<>>, <<"a">>, <<"b">>, <<"a", NL, "b">>, <<"b", NL, "a">>}

InitMemo ==
    /\ beforeCode \in MemoTexts /\ afterCode \in MemoTexts
    /\ fileName = <<"f">>
    /\ pc = "props"
    /\ beforeLines = <<>> /\ afterLines = <<>> /\ diffLines = <<>>
    /\ before = <<>> /\ after = <<>> /\ i = 0 /\ result = <<>>
    /\ beforeIdx = 0 /\ afterIdx = 0
    /\ view = "none"
    /\ thrown = "none"
    /\ annotations = <<>>
    /\ viewMode = "split"
    /\ memoDeps = <<>>
    /\ returned = <<>> /\ remembered = <<>>
    /\ AppIdle

\* The parent re-renders the DiffViewer with props of its choice (the same
\* ones, or one or both changed). remembered keeps the diff shown until then,
\* with the pair it was computed for.
PropsUpdate ==
    /\ pc = "rendered"
    /\ \E b \in MemoTexts, a \in MemoTexts :
           /\ beforeCode' = b
           /\ afterCode' = a
    /\ pc' = "props"
    /\ remembered' = <<memoDeps[1], memoDeps[2], diffLines>>
    /\ UNCHANGED <<fileName, beforeLines, afterLines, diffLines, before, after, i,
                   result, beforeIdx, afterIdx, view, thrown>>
    /\ UNCHANGED <<uiVars, memoDeps, returned>>
    /\ UNCHANGED appVars

NextMemo ==
    DiffViewer \/ DiffViewerMemoized \/ ForStep \/ ForReturn \/ PropsUpdate

SpecMemo == InitMemo /\ [][NextMemo]_vars

(***************************************************************************)
(* computeDiff called again and again by a caller of its own.              *)
(***************************************************************************)
\* the texts a caller passes as before and after
CallTexts == {Null, <<>>, <<"a">>, <<"b">>, <<"a", NL, "b">>}

InitCalls ==
    /\ beforeCode = <<>> /\ afterCode = <<>>
    /\ fileName = Undefined
    /\ pc = "idle"
    /\ beforeLines = <<>> /\ afterLines = <<>> /\ diffLines = <<>>
    /\ before = <<>> /\ after = <<>> /\ i = 0 /\ result = <<>>
    /\ beforeIdx = 0 /\ afterIdx = 0
    /\ view = "none"
    /\ thrown = "none"
    /\ annotations = <<>>
    /\ viewMode = "split"
    /\ memoDeps = <<>>
    /\ returned = <<>> /\ remembered = <<>>
    /\ AppIdle

\* computeDiff(b, a) is called: beforeCode and afterCode hold the arguments.
\* The observer may keep the call that has just returned, with its arguments,
\* in remembered (returned is <<>> until a call has returned: computeDiff
\* never returns an empty array).
computeDiffCall ==
    /\ pc = "idle"
    /\ \E b \in CallTexts, a \in CallTexts :
           /\ beforeCode' = b
           /\ afterCode' = a
           /\ before' = Slice(Split(OrElse(b, <<>>)), MAX_LINES)
           /\ after' = Slice(Split(OrElse(a, <<>>)), MAX_LINES)
    /\ i' = 0
    /\ result' = NewResult
    /\ pc' = "for"
    /\ \/ UNCHANGED remembered
       \/ /\ returned # <<>>
          /\ remembered' = <<beforeCode, afterCode, returned>>
    /\ UNCHANGED <<fileName, beforeLines, afterLines, diffLines, beforeIdx,
                   afterIdx, view, thrown, returned>>
    /\ UNCHANGED <<uiVars, memoDeps>>
    /\ UNCHANGED appVars

\* return result
computeDiffReturn ==
    /\ pc = "for"
    /\ ~(i < maxLen)
    /\ returned' = result
    /\ pc' = "idle"
    /\ UNCHANGED <<fileName, beforeCode, afterCode, beforeLines, afterLines,
                   diffLines, before, after, i, result, beforeIdx, afterIdx,
                   view, thrown, remembered>>
    /\ UNCHANGED <<uiVars, memoDeps>>
    /\ UNCHANGED appVars

NextCalls == computeDiffCall \/ ForStep \/ computeDiffReturn

SpecCalls == InitCalls /\ [][NextCalls]_vars

(***************************************************************************)
(* What the DiffViewer renders from beforeLines, afterLines and diffLines.  *)
(***************************************************************************)
\* the number of lines the panels and the notice count with
SHOWN_LINES == 500
\* const lineHeight = 24
lineHeight == 24
\* the cap of the panel height, in pixels
PANEL_CAP == 720

\* The truncation warning: whether it is rendered, and the line count it names.
NoticeShown_AtLimit(bl, al) == Len(bl) >= SHOWN_LINES \/ Len(al) >= SHOWN_LINES
NoticeShown(bl, al) == Len(bl) > SHOWN_LINES \/ Len(al) > SHOWN_LINES
NoticeLines(bl, al) == Max(Len(bl), Len(al))

\* const panelHeight = Math.min(maxLines * lineHeight, 720)
PanelHeight_CapOnLines(bl, al) ==
    Min(Max(Len(bl), Len(al)), PANEL_CAP) * lineHeight
PanelHeight(bl, al) ==
    LET maxLines == Min(Max(Len(bl), Len(al)), SHOWN_LINES)
    IN  Min(maxLines * lineHeight, PANEL_CAP)

\* diffLines.filter((l) => l.type === t).length
Count_OtherTypes(recs, t) == Len(SelectSeq(recs, LAMBDA l : l.type # t))
Count(recs, t) == Len(SelectSeq(recs, LAMBDA l : l.type = t))
Stats(recs) ==
    [additions |-> Count(recs, "added"),
     deletions |-> Count(recs, "removed"),
     unchanged |-> Count(recs, "unchanged")]

\* new Set(lines), and set.has(line)
SetOf(lines) == {lines[k] : k \in 1..Len(lines)}
Has(set, line) == line \in set

\* Split view: the rows of the Before panel and of the After panel, each with
\* its highlight.
SplitBefore(bl, al) ==
    LET shown == Slice(bl, SHOWN_LINES)
        afterLinesSet == SetOf(al)
    IN  [idx \in 1..Len(shown) |->
            [line |-> shown[idx], isRemoved |-> ~Has(afterLinesSet, shown[idx])]]
SplitAfter(bl, al) ==
    LET shown == Slice(al, SHOWN_LINES)
        beforeLinesSet == SetOf(bl)
    IN  [idx \in 1..Len(shown) |->
            [line |-> shown[idx], isAdded |-> ~Has(beforeLinesSet, shown[idx])]]

\* annotations.find((a) => a.line === lineNumber): the first annotation of the
\* line as a one-element sequence, the empty sequence for undefined.
getAnnotationForLine(anns, rec) ==
    LET hits == SelectSeq(anns, LAMBDA a : a.line = rec.lineNumber)
    IN  SubSeq(hits, 1, Min(1, Len(hits)))

\* Unified view: one row per record of diffLines, with the annotation rendered
\* under it (showAnnotations is left at its initial true).
UnifiedRows(recs, anns) ==
    [idx \in 1..Len(recs) |->
        [line |-> recs[idx],
         annotation |-> getAnnotationForLine(anns, recs[idx])]]

(***************************************************************************)
(* The earlier DiffViewer: the diff is computed inline by a while loop.    *)
(***************************************************************************)
InlineCap == 2 * MaxLines + InlineSlack

InitInline ==
    /\ \E pair \in SmallInputs \X SmallInputs :
           beforeCode = pair[1] /\ afterCode = pair[2]
    /\ fileName \in FileNames
    /\ pc = "props"
    /\ beforeLines = <<>> /\ afterLines = <<>> /\ diffLines = <<>>
    /\ before = <<>> /\ after = <<>> /\ i = 0 /\ result = <<>>
    /\ beforeIdx = 0 /\ afterIdx = 0
    /\ view = "none"
    /\ thrown = "none"
    /\ annotations = <<>>
    /\ viewMode = "split"
    /\ memoDeps = <<>>
    /\ returned = <<>> /\ remembered = <<>>
    /\ AppIdle

\* One iteration of the while loop: the record pushed and the two increments.
WhileBody(bl, al, bi, ai) ==
    LET beforeLine == At(bl, bi)
        afterLine == At(al, ai)
    IN  IF beforeLine = afterLine
        THEN [push |-> DiffLine("unchanged", ai + 1, OrElse(afterLine, <<>>)),
              beforeIdx |-> bi + 1, afterIdx |-> ai + 1]
        ELSE IF ~Includes(al, beforeLine) /\ beforeLine # Undefined
        THEN [push |-> DiffLine("removed", bi + 1, beforeLine),
              beforeIdx |-> bi + 1, afterIdx |-> ai]
        ELSE [push |-> DiffLine("added", ai + 1, OrElse(afterLine, <<>>)),
              beforeIdx |-> bi, afterIdx |-> ai + 1]

WhileCond == beforeIdx < Len(beforeLines) \/ afterIdx < Len(afterLines)

\* A render of the earlier DiffViewer up to its loop: the skeleton while all
\* three props are empty, else the two texts are split.
DiffViewerInline ==
    /\ pc = "props"
    /\ LET f == Default(fileName, <<>>)
           b == Default(beforeCode, <<>>)
           a == Default(afterCode, <<>>)
       IN  IF Placeholder(f, b, a)
           THEN /\ view' = "skeleton"
                /\ pc' = "rendered"
                /\ UNCHANGED <<beforeLines, afterLines>>
           ELSE /\ beforeLines' = Split(OrElse(b, <<>>))
                /\ afterLines' = Split(OrElse(a, <<>>))
                /\ pc' = "while"
                /\ UNCHANGED view
    /\ UNCHANGED <<fileName, beforeCode, afterCode, diffLines, before, after, i,
                   result, beforeIdx, afterIdx, thrown>>
    /\ UNCHANGED <<uiVars, memoDeps, callVars>>
    /\ UNCHANGED appVars

\* One iteration of the while loop (followed up to InlineCap records).
WhileStep ==
    /\ pc = "while"
    /\ WhileCond
    /\ Len(diffLines) < InlineCap
    /\ LET step == WhileBody(beforeLines, afterLines, beforeIdx, afterIdx)
       IN  /\ diffLines' = Append(diffLines, step.push)
           /\ beforeIdx' = step.beforeIdx
           /\ afterIdx' = step.afterIdx
    /\ UNCHANGED <<fileName, beforeCode, afterCode, pc, beforeLines, afterLines,
                   before, after, i, result, view, thrown>>
    /\ UNCHANGED <<uiVars, memoDeps, callVars>>
    /\ UNCHANGED appVars

\* The loop ends and the diff is rendered.
WhileExit ==
    /\ pc = "while"
    /\ ~WhileCond
    /\ view' = "diff"
    /\ pc' = "rendered"
    /\ UNCHANGED <<fileName, beforeCode, afterCode, beforeLines, afterLines,
                   diffLines, before, after, i, result, beforeIdx, afterIdx, thrown>>
    /\ UNCHANGED <<uiVars, memoDeps, callVars>>
    /\ UNCHANGED appVars

NextInline == DiffViewerInline \/ WhileStep \/ WhileExit

SpecInline == InitInline /\ [][NextInline]_vars

\* The while loop is sequential code: a started loop runs on.
FairInline == SpecInline /\ WF_vars(NextInline)

(***************************************************************************)
(* ImportCodeModal (import-code-modal.tsx) and the thread effects of       *)
(* MessageThreadFull (tambo.ts).                                           *)
(***************************************************************************)
MaxImports == 2
MaxRuns == 3

GitHubHost == <<"github", "com">>
OwnerRepo == <<(<<"o">>), (<<"r">>)>>
UrlHosts == {<<"gitlab", "com">>, <<"www", "github", "com">>, <<"not a url">>}
UrlPaths ==
    {<<>>, <<(<<"o">>)>>, <<(<<"o">>), (<<"r", ".git">>)>>,
     <<(<<"o">>), <<>>, (<<"r">>)>>,
     <<(<<"o">>), (<<"r">>), (<<"tree">>), (<<"main">>)>>,
     <<(<<"o">>), (<<"r">>), (<<"tree">>), (<<"feat">>), (<<"x">>)>>,
     <<(<<"o">>), (<<"r">>), (<<"tree">>)>>,
     <<(<<"o">>), (<<"r">>), (<<"blob">>), (<<"f">>)>>}
UrlInputs ==
    {NoUrl, UrlText(TRUE, "", <<>>, <<>>, 0), UrlText(FALSE, "", <<>>, <<>>, 1),
     UrlText(FALSE, "https://", <<>>, <<>>, 0)}
    \cup {UrlText(sp, sc, GitHubHost, OwnerRepo, sl) :
              sp \in BOOLEAN, sc \in {"", "https://"}, sl \in 0..1}
    \cup {UrlText(FALSE, "https://", h, OwnerRepo, 0) : h \in UrlHosts}
    \cup {UrlText(FALSE, "https://", GitHubHost, path, 0) : path \in UrlPaths}

\* !url.trim()
Blank(u) == u.scheme = "" /\ u.host = <<>> /\ u.path = <<>> /\ u.slashes = 0

\* new URL(urlWithProtocol) throws on a text without a host or with a host
\* that is no host name
UrlThrows(u) == u.host = <<>> \/ \E k \in 1..Len(u.host) : u.host[k] = "not a url"

\* parsed.hostname.includes("github.com"), on the labels of the host
HostIncludesGitHub(h) ==
    \E k \in 1..(Len(h) - 1) : h[k] = "github" /\ h[k + 1] = "com"

\* pathParts[1].replace(/\.git$/, "")
StripGit(segment) ==
    IF Len(segment) > 1 /\ segment[Len(segment)] = ".git"
    THEN SubSeq(segment, 1, Len(segment) - 1)
    ELSE segment

\* parseGitHubUrl: <<>> for null, else <<{owner, repo, branch}>>, branch <<>>
\* while undefined and else the segments that "/" joins. trim, the removal of
\* the trailing slashes and the default scheme leave host and path as they are.
parseGitHubUrl_AnyHost(u) ==
    LET pathParts == SelectSeq(u.path, LAMBDA seg : seg # <<>>)
    IN  IF UrlThrows(u) THEN <<>>
        ELSE IF Len(pathParts) < 2 THEN <<>>
        ELSE <<[owner |-> pathParts[1],
                repo |-> StripGit(pathParts[2]),
                branch |-> IF Len(pathParts) >= 4 /\ pathParts[3] = <<"tree">>
                           THEN SubSeq(pathParts, 4, Len(pathParts))
                           ELSE <<>>]>>
parseGitHubUrl(u) ==
    LET pathParts == SelectSeq(u.path, LAMBDA seg : seg # <<>>)
    IN  IF UrlThrows(u) THEN <<>>
        ELSE IF ~HostIncludesGitHub(u.host) THEN <<>>
        ELSE IF Len(pathParts) < 2 THEN <<>>
        ELSE <<[owner |-> pathParts[1],
                repo |-> StripGit(pathParts[2]),
                branch |-> IF Len(pathParts) >= 4 /\ pathParts[3] = <<"tree">>
                           THEN SubSeq(pathParts, 4, Len(pathParts))
                           ELSE <<>>]>>

\* the repoData handleImport stores: branch || null
RepoData(parsed) ==
    [owner |-> parsed.owner, repo |-> parsed.repo,
     branch |-> IF parsed.branch = <<>> THEN Null ELSE parsed.branch]

\* new CustomEvent(type, {detail}): detail <<>> for null or none
CustomEvent(type, detail) == [type |-> type, detail |-> detail]
Imports ==
    Cardinality({k \in 1..Len(dispatched) :
                    dispatched[k].type = "gitstory-start-new-thread"})

ThreadIds == {<<"t1">>, <<"t2">>, <<"t3">>}
Mounted == effectDeps # <<"unmounted">>

\* The modal is opened: the effect on isOpen empties url and error.
OpenModal ==
    /\ ~isOpen
    /\ importPc = "idle"
    /\ isOpen' = TRUE
    /\ url' = NoUrl
    /\ error' = <<>>
    /\ UNCHANGED <<isImporting, importPc, localStorage, dispatched, threadVars,
                   imported>>
    /\ UNCHANGED outsideModal

\* onChange of the input
setUrl ==
    /\ isOpen
    /\ importPc = "idle"
    /\ \E text \in UrlInputs : url' = text
    /\ error' = <<>>
    /\ UNCHANGED <<isImporting, isOpen, importPc, localStorage, dispatched,
                   threadVars, imported>>
    /\ UNCHANGED outsideModal

\* handleImport up to its try block (the Import button, or Enter while
\* !isImporting): the two early returns, else setIsImporting(true).
handleImport ==
    /\ isOpen
    /\ importPc = "idle"
    /\ ~isImporting
    /\ Imports < MaxImports
    /\ IF Blank(url)
       THEN /\ error' = <<"Please enter a GitHub repository URL">>
            /\ UNCHANGED <<isImporting, importPc>>
       ELSE IF parseGitHubUrl(url) = <<>>
       THEN /\ error' = <<"Invalid GitHub URL">>
            /\ UNCHANGED <<isImporting, importPc>>
       ELSE /\ error' = <<>>
            /\ isImporting' = TRUE
            /\ importPc' = "try"
    /\ UNCHANGED <<url, isOpen, localStorage, dispatched, threadVars, imported>>
    /\ UNCHANGED outsideModal

\* startNewThread() of the thread library, called by handleStartNewThread while
\* MessageThreadFull is mounted: some thread becomes the current one.
StartNewThreadIds == IF Mounted THEN ThreadIds ELSE {threadId}

\* The try block: localStorage.setItem may throw (storage full or denied), and
\* the catch sets the error; else the repository is stored, the two events are
\* dispatched (handleStartNewThread runs inside dispatchEvent) and the modal
\* is closed.
ImportTry ==
    /\ importPc = "try"
    /\ \/ /\ error' = <<"Failed to import repository">>
          /\ UNCHANGED <<localStorage, dispatched, threadId, isOpen, imported>>
       \/ LET parsed == parseGitHubUrl(url)[1]
          IN  /\ localStorage' =
                     [localStorage EXCEPT !["gitstory-repo"] = <<RepoData(parsed)>>]
              /\ dispatched' = dispatched \o
                     <<CustomEvent("gitstory-repo-changed",
                                   <<[owner |-> parsed.owner, repo |-> parsed.repo]>>),
                       CustomEvent("gitstory-start-new-thread", <<>>)>>
              /\ \E id \in StartNewThreadIds : threadId' = id
              /\ isOpen' = FALSE
              /\ imported' = <<RepoData(parsed)>>
              /\ UNCHANGED error
    /\ importPc' = "finally"
    /\ UNCHANGED <<url, isImporting, previousThreadId, effectDeps, seenIds>>
    /\ UNCHANGED outsideModal

\* finally { setIsImporting(false) }
ImportFinally ==
    /\ importPc = "finally"
    /\ isImporting' = FALSE
    /\ importPc' = "idle"
    /\ UNCHANGED <<url, error, isOpen, localStorage, dispatched, threadVars,
                   imported>>
    /\ UNCHANGED outsideModal

\* The user switches thread, or the current thread is not there for a while.
ThreadChange ==
    /\ importPc = "idle"
    /\ Len(seenIds) < MaxRuns
    /\ \E id \in (ThreadIds \cup {Undefined}) \ {threadId} : threadId' = id
    /\ imported' = <<>>
    /\ UNCHANGED <<localStorage, modalVars, dispatched, previousThreadId,
                   effectDeps, seenIds>>
    /\ UNCHANGED outsideModal

\* The thread-switch effect, run after mount and after every render in which
\* thread?.id is not the one it last ran for.
ThreadSwitched_AnyPrevious(previous, id) == previous # id
ThreadSwitched(previous, id) == previous # Null /\ previous # id
ThreadEffect ==
    /\ importPc = "idle"
    /\ effectDeps # threadId
    /\ effectDeps' = threadId
    /\ seenIds' = Append(seenIds, threadId)
    /\ IF threadId = Undefined
       THEN UNCHANGED <<localStorage, dispatched, previousThreadId>>
       ELSE /\ IF ThreadSwitched(previousThreadId, threadId)
               THEN /\ localStorage' =
                           [localStorage EXCEPT !["gitstory-repo"] = <<>>]
                    /\ dispatched' = Append(dispatched,
                           CustomEvent("gitstory-repo-changed", <<>>))
               ELSE UNCHANGED <<localStorage, dispatched>>
            /\ previousThreadId' = threadId
    /\ UNCHANGED <<modalVars, threadId, imported>>
    /\ UNCHANGED outsideModal

\* no DiffViewer is looked at
DiffIdle ==
    /\ fileName = Undefined /\ beforeCode = <<>> /\ afterCode = <<>>
    /\ pc = "none"
    /\ beforeLines = <<>> /\ afterLines = <<>> /\ diffLines = <<>>
    /\ before = <<>> /\ after = <<>> /\ i = 0 /\ result = <<>>
    /\ beforeIdx = 0 /\ afterIdx = 0
    /\ view = "none"
    /\ thrown = "none"
    /\ annotations = <<>>
    /\ viewMode = "split"
    /\ memoDeps = <<>>
    /\ returned = <<>> /\ remembered = <<>>

\* The modal alone, with whatever is typed into it.
InitImport ==
    /\ DiffIdle
    /\ AppIdle

NextImport == OpenModal \/ setUrl \/ handleImport \/ ImportTry \/ ImportFinally

SpecImport == InitImport /\ [][NextImport]_vars

\* The modal with a repository URL in it, and the threads.
InitThread ==
    /\ DiffIdle
    /\ localStorage = [key \in StorageKeys |-> <<>>]
    /\ url \in {UrlText(FALSE, "https://", GitHubHost, OwnerRepo, 0),
                 UrlText(FALSE, "https://", GitHubHost,
                         <<(<<"o">>), (<<"r">>), (<<"tree">>), (<<"main">>)>>, 0)}
    /\ error = <<>> /\ isImporting = FALSE
    /\ isOpen = TRUE /\ importPc = "idle"
    /\ dispatched = <<>>
    /\ threadId \in ThreadIds \cup {Undefined}
    /\ previousThreadId = Null
    /\ effectDeps = <<"unmounted">> /\ seenIds = <<>>
    /\ imported = <<>>
    /\ TimelineIdle
    /\ ToolIdle

NextThread ==
    handleImport \/ ImportTry \/ ImportFinally \/ ThreadChange \/ ThreadEffect

SpecThread == InitThread /\ [][NextThread]_vars

(***************************************************************************)
(* CommitTimeline (commit-timeline.tsx): file clicks and Risk clicks.      *)
(***************************************************************************)
MaxClicks == 2

Files == {"a.ts", "b.ts"}
Commits == {"c1", "c2"}
\* `${commit.id}-${file.path}`
FileKey(commit, file) == <<commit, "-", file>>
DiffMessage(file, commit) == <<"Show me the diff for", file, "in commit", commit>>
RiskMessage(commit) == <<"Show risk heatmap analysis for commit", commit>>

Handler(kind, message) == [kind |-> kind, message |-> message, pc |-> "wait"]
InFlight(kind) == SelectSeq(handlers, LAMBDA h : h.kind = kind)
Remove(seq, k) == SubSeq(seq, 1, k - 1) \o SubSeq(seq, k + 1, Len(seq))

\* if (loadingFile) return, on the loadingFile of the render the handler is of
FileClickIgnored_Never(closed) == FALSE
FileClickIgnored(closed) == closed # Null

\* A click on a file row: handleFileClick up to its first await. The click is
\* a discrete event, so React renders the new loadingFile before the next
\* event is handled.
handleFileClick ==
    /\ Len(submitted) + Len(handlers) < MaxClicks
    /\ \E file \in Files, commit \in Commits :
           IF FileClickIgnored(renderedLoadingFile)
           THEN UNCHANGED timelineVars
           ELSE /\ loadingFile' = FileKey(commit, file)
                /\ renderedLoadingFile' = FileKey(commit, file)
                /\ value' = DiffMessage(file, commit)
                /\ handlers' =
                       Append(handlers, Handler("file", DiffMessage(file, commit)))
                /\ UNCHANGED <<loadingHeatmap, submitted>>
    /\ UNCHANGED <<localStorage, modalVars, dispatched, threadVars, imported,
                   toolVars>>
    /\ UNCHANGED diffVars

\* A click on a commit's Risk button (disabled while loadingHeatmap is that
\* commit): triggerRiskHeatmap up to its first await.
triggerRiskHeatmap ==
    /\ Len(submitted) + Len(handlers) < MaxClicks
    /\ \E commit \in Commits :
           /\ loadingHeatmap # <<commit>>
           /\ loadingHeatmap' = <<commit>>
           /\ value' = RiskMessage(commit)
           /\ handlers' = Append(handlers, Handler("risk", RiskMessage(commit)))
    /\ UNCHANGED <<loadingFile, renderedLoadingFile, submitted>>
    /\ UNCHANGED <<localStorage, modalVars, dispatched, threadVars, imported,
                   toolVars>>
    /\ UNCHANGED diffVars

\* The 50 ms of the oldest waiting handler are over and it calls submit(): the
\* thread input sends its value of that moment (nothing, and the promise is
\* rejected, while the value is empty) and may empty it.
TimerFires ==
    /\ \E k \in 1..Len(handlers) :
           /\ handlers[k].pc = "wait"
           /\ \A j \in 1..(k - 1) : handlers[j].pc # "wait"
           /\ handlers' = [handlers EXCEPT ![k].pc = "submitting"]
           /\ IF value = <<>>
              THEN UNCHANGED <<value, submitted>>
              ELSE /\ submitted' = Append(submitted,
                          [composed |-> handlers[k].message, sent |-> value])
                   /\ value' \in {value, <<>>}
    /\ UNCHANGED <<loadingFile, loadingHeatmap, renderedLoadingFile>>
    /\ UNCHANGED <<localStorage, modalVars, dispatched, threadVars, imported,
                   toolVars>>
    /\ UNCHANGED diffVars

\* A submit resolves or rejects; the handler's finally block runs.
SubmitSettles ==
    /\ \E k \in 1..Len(handlers) :
           /\ handlers[k].pc = "submitting"
           /\ handlers' = Remove(handlers, k)
           /\ IF handlers[k].kind = "file"
              THEN loadingFile' = Null /\ UNCHANGED loadingHeatmap
              ELSE loadingHeatmap' = Null /\ UNCHANGED loadingFile
    /\ UNCHANGED <<renderedLoadingFile, value, submitted>>
    /\ UNCHANGED <<localStorage, modalVars, dispatched, threadVars, imported,
                   toolVars>>
    /\ UNCHANGED diffVars

\* React renders the state set outside an event: handleFileClick is made anew
\* (useCallback on loadingFile).
Render ==
    /\ renderedLoadingFile # loadingFile
    /\ renderedLoadingFile' = loadingFile
    /\ UNCHANGED <<loadingFile, loadingHeatmap, value, submitted, handlers>>
    /\ UNCHANGED <<localStorage, modalVars, dispatched, threadVars, imported,
                   toolVars>>
    /\ UNCHANGED diffVars

InitTimeline ==
    /\ DiffIdle
    /\ AppIdle

NextTimeline ==
    handleFileClick \/ triggerRiskHeatmap \/ TimerFires \/ SubmitSettles \/ Render

SpecTimeline == InitTimeline /\ [][NextTimeline]_vars

(***************************************************************************)
(* The GitHub tools (part_002): getRepoInfo, getRecentCommits,             *)
(* getFileContent, listRepoContents.                                       *)
(***************************************************************************)
\* what localStorage may hold under gitstory-auth and gitstory-repo: nothing,
\* a text that is no JSON, or a JSON object
NotJson == [notJson |-> TRUE]
IsJson(saved) == "notJson" \notin DOMAIN saved
AuthValues ==
    {<<>>, <<NotJson>>, <<[accessToken |-> ""]>>, <<[accessToken |-> "tok"]>>}
RepoValues ==
    {<<>>, <<NotJson>>,
     <<[owner |-> <<>>, repo |-> <<"r">>, branch |-> Null]>>,
     <<[owner |-> <<"o">>, repo |-> <<"r">>, branch |-> Null]>>,
     <<[owner |-> <<"o">>, repo |-> <<"r">>, branch |-> <<(<<"main">>)>>]>>}

\* getAccessToken: <<>> for null, else <<token>>. JSON.parse throws on a text
\* that is no JSON and the catch returns null; parsed.accessToken || null.
getAccessToken(storage) ==
    LET savedAuth == storage["gitstory-auth"]
    IN  IF savedAuth = <<>> THEN <<>>
        ELSE IF ~IsJson(savedAuth[1]) THEN <<>>
        ELSE IF savedAuth[1].accessToken = "" THEN <<>>
        ELSE <<savedAuth[1].accessToken>>

\* getCurrentRepo: <<>> for null, else <<{owner, repo, branch}>>, the branch
\* <<>> while undefined (parsed.branch || undefined).
getCurrentRepo(storage) ==
    LET savedRepo == storage["gitstory-repo"]
    IN  IF savedRepo = <<>> THEN <<>>
        ELSE IF ~IsJson(savedRepo[1]) THEN <<>>
        ELSE IF savedRepo[1].owner # <<>> /\ savedRepo[1].repo # <<>>
        THEN <<[owner |-> savedRepo[1].owner, repo |-> savedRepo[1].repo,
                branch |-> IF savedRepo[1].branch = Null THEN <<>>
                           ELSE savedRepo[1].branch]>>
        ELSE <<>>

Success(data) == [success |-> TRUE, data |-> <<data>>, error |-> <<>>]
Failure(message) == [success |-> FALSE, data |-> <<>>, error |-> <<message>>]

\* the two early returns every tool starts with: <<>> when it goes on
EarlyReturn_RepoFirst(token, repoConfig) ==
    IF repoConfig = <<>> THEN <<Failure("No repository imported")>>
    ELSE IF token = <<>> THEN <<Failure("Not authenticated with GitHub")>>
    ELSE <<>>
EarlyReturn(token, repoConfig) ==
    IF token = <<>> THEN <<Failure("Not authenticated with GitHub")>>
    ELSE IF repoConfig = <<>> THEN <<Failure("No repository imported")>>
    ELSE <<>>

ToolNames == {"getRepoInfo", "getRecentCommits", "getFileContent", "listRepoContents"}

\* A tool is called: token and repository are read, and it returns at once
\* when one is missing. getRecentCommits first asks for the default branch
\* when the stored repository names none.
ToolCall ==
    /\ toolPc = "idle"
    /\ \E name \in ToolNames :
           LET token == getAccessToken(localStorage)
               repoConfig == getCurrentRepo(localStorage)
               early == EarlyReturn(token, repoConfig)
           IN  /\ requests' = 0
               /\ IF early # <<>>
                  THEN /\ tool' = [NoTool EXCEPT !.name = name]
                       /\ toolResult' = early
                       /\ UNCHANGED toolPc
                  ELSE /\ tool' = [name |-> name, token |-> token,
                                   repoConfig |-> repoConfig,
                                   branch |-> repoConfig[1].branch]
                       /\ toolResult' = <<>>
                       /\ toolPc' = IF name = "getRecentCommits"
                                       /\ repoConfig[1].branch = <<>>
                                    THEN "fetchRepo" ELSE "fetch"
    /\ UNCHANGED <<localStorage, modalVars, dispatched, threadVars, imported,
                   timelineVars>>
    /\ UNCHANGED diffVars

\* getRecentCommits asks for the repository to learn its default branch: fetch
\* or json() may throw (the catch returns), a response that is not ok is
\* passed over, an ok one gives the branch (or none, if the body has none).
FetchRepo ==
    /\ toolPc = "fetchRepo"
    /\ requests' = requests + 1
    /\ \/ /\ toolResult' = <<Failure("Failed to fetch commits")>>
          /\ toolPc' = "idle"
          /\ UNCHANGED tool
       \/ /\ \E branch \in {<<>>, <<(<<"main">>)>>} :
                 tool' = [tool EXCEPT !.branch = branch]
          /\ toolPc' = "fetch"
          /\ UNCHANGED toolResult
    /\ UNCHANGED <<localStorage, modalVars, dispatched, threadVars, imported,
                   timelineVars>>
    /\ UNCHANGED diffVars

\* what the request of a tool can come to: fetch throws, a 404, another
\* status that is not ok, a body json() throws on, or an ok body that is an
\* object describing a file, an array, or neither (null)
Responses == {"throws", "404", "500", "bad json", "file", "array", "null"}

\* the result a tool returns for a response
Respond(name, response) ==
    IF response \in {"throws", "bad json"} THEN Failure("Failed to fetch")
    ELSE IF response = "404"
    THEN IF name = "getRecentCommits" THEN Failure("GitHub API error")
         ELSE Failure("not found")
    ELSE IF response = "500" THEN Failure("GitHub API error")
    ELSE IF name = "getRepoInfo"
    THEN IF response = "null" THEN Failure("Failed to fetch")
         ELSE Success("repo info")
    ELSE IF name = "getRecentCommits"
    THEN IF response = "array" THEN Success("commits")
         ELSE Failure("Failed to fetch")
    ELSE IF name = "getFileContent"
    THEN IF response = "null" THEN Failure("Failed to fetch")
         ELSE IF response = "array" THEN Failure("is not a file")
         ELSE Success("content")
    ELSE IF response = "array" THEN Success("items")
         ELSE Failure("is a file, not a directory")

\* The request of the tool and its return. atob of a file's content, and the
\* mapping of an array whose items are not as expected, may throw as well (the
\* catch returns).
Fetch ==
    /\ toolPc = "fetch"
    /\ requests' = requests + 1
    /\ \E response \in Responses :
           \/ toolResult' = <<Respond(tool.name, response)>>
           \/ /\ \/ tool.name = "getFileContent" /\ response = "file"
                 \/ tool.name = "getRecentCommits" /\ response = "array"
                 \/ tool.name = "listRepoContents" /\ response = "array"
              /\ toolResult' = <<Failure("Failed to fetch")>>
    /\ toolPc' = "idle"
    /\ UNCHANGED tool
    /\ UNCHANGED <<localStorage, modalVars, dispatched, threadVars, imported,
                   timelineVars>>
    /\ UNCHANGED diffVars

InitTools ==
    /\ DiffIdle
    /\ \E auth \in AuthValues, repo \in RepoValues :
           localStorage = [key \in StorageKeys |->
                              IF key = "gitstory-auth" THEN auth ELSE repo]
    /\ url = NoUrl /\ error = <<>> /\ isImporting = FALSE
    /\ isOpen = FALSE /\ importPc = "idle"
    /\ dispatched = <<>>
    /\ threadId = Undefined /\ previousThreadId = Null
    /\ effectDeps = <<"unmounted">> /\ seenIds = <<>>
    /\ imported = <<>>
    /\ TimelineIdle
    /\ ToolIdle

NextTools == ToolCall \/ FetchRepo \/ Fetch

SpecTools == InitTools /\ [][NextTools]_vars

(***************************************************************************)
(* Properties.                                                             *)
(***************************************************************************)
Rendered == pc = "rendered"

\* the records of recs whose type is in types, in order
OfType(recs, types) == SelectSeq(recs, LAMBDA r : r.type \in types)
Contents(recs) == [k \in 1..Len(recs) |-> recs[k].content]
\* the first MAX_LINES lines of a side
Window(lines) == SubSeq(lines, 1, Min(Len(lines), MAX_LINES))
FromBefore(recs) == OfType(recs, {"removed", "unchanged"})
FromAfter(recs) == OfType(recs, {"added", "unchanged"})
HasType(recs, t) == \E k \in 1..Len(recs) : recs[k].type = t
StrictPrefix(x, y) == Len(x) < Len(y) /\ SubSeq(y, 1, Len(x)) = x

\* C1: the removed and unchanged records of computeDiff's result carry, in
\* order, the first min(len, 500) lines of before, and the added and unchanged
\* records carry the first min(len, 500) lines of after.
C1_Reconstruction ==
    Rendered =>
        /\ Contents(FromBefore(diffLines)) = Window(beforeLines)
        /\ Contents(FromAfter(diffLines)) = Window(afterLines)

C1_Witness ==
    /\ Rendered
    /\ HasType(diffLines, "removed")
    /\ HasType(diffLines, "added")
    /\ HasType(diffLines, "unchanged")
    /\ Len(beforeLines) # Len(afterLines)

\* The records the reference index-aligned diff emits at index n (from 0).
Reference(b, a, n) ==
    IF n < Len(b) /\ n < Len(a)
    THEN IF b[n + 1] = a[n + 1]
         THEN <<DiffLine("unchanged", n + 1, a[n + 1])>>
         ELSE <<DiffLine("removed", n + 1, b[n + 1]),
                DiffLine("added", n + 1, a[n + 1])>>
    ELSE IF n < Len(a)
    THEN <<DiffLine("added", n + 1, a[n + 1])>>
    ELSE <<DiffLine("removed", n + 1, b[n + 1])>>

\* C2: computeDiff's result is the reference index-aligned diff of the two
\* truncated sides: the positions never decrease, lie in 1 .. max length, and
\* the records at position n + 1 are exactly the reference's records of index n.
C2_IndexAligned ==
    Rendered =>
        LET b == Window(beforeLines)
            a == Window(afterLines)
            m == Max(Len(b), Len(a))
        IN  /\ \A k \in 1..Len(diffLines) : diffLines[k].lineNumber \in 1..m
            /\ \A k \in 1..(Len(diffLines) - 1) :
                   diffLines[k].lineNumber <= diffLines[k + 1].lineNumber
            /\ \A n \in 0..(m - 1) :
                   SelectSeq(diffLines, LAMBDA r : r.lineNumber = n + 1)
                       = Reference(b, a, n)

C2_Witness ==
    /\ Rendered
    /\ \E k \in 1..(Len(diffLines) - 1) :
           /\ diffLines[k].type = "removed"
           /\ diffLines[k + 1].type = "added"
           /\ diffLines[k].lineNumber = diffLines[k + 1].lineNumber
    /\ Len(beforeLines) < Len(afterLines)
    /\ diffLines[Len(diffLines)].type = "added"

AllOfType(recs, t) == \A k \in 1..Len(recs) : recs[k].type = t

\* C3: computeDiff("", after) has only added records, one per line of after, in
\* the order of after.
C3_EmptyBeforeAllAdded ==
    (Rendered /\ beforeCode = <<>>) =>
        /\ AllOfType(diffLines, "added")
        /\ Contents(diffLines) = afterLines

\* C4: computeDiff(before, "") has only removed records, one per line of
\* before, in the order of before.
C4_EmptyAfterAllRemoved ==
    (Rendered /\ afterCode = <<>>) =>
        /\ AllOfType(diffLines, "removed")
        /\ Contents(diffLines) = beforeLines

\* C5 as stated: computeDiff(t, t) has only unchanged records, as many as t has
\* lines.
C5_SelfDiffAllLines ==
    (Rendered /\ beforeCode = afterCode) =>
        /\ AllOfType(diffLines, "unchanged")
        /\ Len(diffLines) = Len(beforeLines)

\* C5, amended: computeDiff(t, t) has only unchanged records, as many as t has
\* lines among its first 500: min(number of lines of t, 500).
C5_SelfDiff ==
    (Rendered /\ beforeCode = afterCode) =>
        /\ AllOfType(diffLines, "unchanged")
        /\ Len(diffLines) = Min(Len(beforeLines), MAX_LINES)
        /\ Contents(diffLines) = Window(beforeLines)

C5_Witness ==
    /\ Rendered
    /\ beforeCode = afterCode
    /\ Len(beforeLines) > MAX_LINES
    /\ Len(diffLines) = MAX_LINES

\* The diff of a side `short` that is a prefix of `long`, the extra lines being
\* of type t: one unchanged record per line of short, then one t record per
\* further line of long up to line upTo.
PrefixDiff(short, long, t, upTo) ==
    [k \in 1..upTo |->
        IF k <= Len(short) THEN DiffLine("unchanged", k, short[k])
        ELSE DiffLine(t, k, long[k])]

\* C6 as stated: when one side's lines are a strict prefix of the other's, the
\* result is one unchanged record per line of the shorter side, then one added
\* (or removed) record per extra line of the longer side at its own position.
C6_PrefixAllLines ==
    Rendered =>
        /\ StrictPrefix(beforeLines, afterLines) =>
               diffLines = PrefixDiff(beforeLines, afterLines, "added", Len(afterLines))
        /\ StrictPrefix(afterLines, beforeLines) =>
               diffLines = PrefixDiff(afterLines, beforeLines, "removed", Len(beforeLines))

\* C6, amended: the same of the first 500 lines of each side: one unchanged
\* record per line of the shorter side among its first 500, then one added (or
\* removed) record per extra line of the longer side up to line 500.
C6_Prefix ==
    Rendered =>
        /\ StrictPrefix(beforeLines, afterLines) =>
               diffLines = PrefixDiff(Window(beforeLines), afterLines, "added",
                                      Min(Len(afterLines), MAX_LINES))
        /\ StrictPrefix(afterLines, beforeLines) =>
               diffLines = PrefixDiff(Window(afterLines), beforeLines, "removed",
                                      Min(Len(beforeLines), MAX_LINES))

C6_Witness ==
    /\ Rendered
    /\ StrictPrefix(beforeLines, afterLines)
    /\ Len(beforeLines) = MaxLines - 1
    /\ diffLines[Len(diffLines)] =
           DiffLine("added", MaxLines, afterLines[MaxLines])
    /\ diffLines[Len(diffLines)].content # <<>>

\* C7: the inline while loop ends, having pushed at most
\* len(beforeLines) + len(afterLines) records.
C7_InlineBounded ==
    pc \in {"while", "rendered"} =>
        Len(diffLines) <= Len(beforeLines) + Len(afterLines)

\* C8: computeDiff's loop runs at most 500 times and its result never has more
\* than 1000 records; the loop ends, since every iteration brings i one closer
\* to maxLen, which it never exceeds.
C8_Terminates ==
    /\ [](/\ i <= MAX_LINES
          /\ Len(result) <= 2 * MAX_LINES
          /\ pc = "for" => i <= maxLen)
    /\ [][pc = "for" =>
             \/ pc' = "rendered"
             \/ pc' = "for" /\ maxLen' - i' < maxLen - i]_vars

C8_Witness ==
    /\ Rendered
    /\ Len(beforeLines) > MAX_LINES
    /\ i = MAX_LINES
    /\ Len(diffLines) = 2 * MAX_LINES

\* C9: no render raises, and an absent (undefined) or null text is split as the
\* empty string is.
C9_NeverRaises ==
    /\ thrown = "none"
    /\ pc # "thrown"
    /\ pc \in {"for", "rendered"} =>
           /\ beforeCode \in {Undefined, Null} => before = Split(<<>>)
           /\ afterCode \in {Undefined, Null} => after = Split(<<>>)

C9_Witness ==
    /\ Rendered
    /\ beforeCode = Null
    /\ afterCode = Undefined
    /\ diffLines = <<DiffLine("unchanged", 1, <<>>)>>

\* C10: when a side has more than 500 lines, every record is the line of its
\* side at its lineNumber, no lineNumber is above 500, and each side gives at
\* most 500 records, no two of them for the same line.
C10_Truncated ==
    (Rendered /\ (Len(beforeLines) > MAX_LINES \/ Len(afterLines) > MAX_LINES)) =>
        LET fb == FromBefore(diffLines)
            fa == FromAfter(diffLines)
        IN  /\ \A k \in 1..Len(diffLines) : diffLines[k].lineNumber \in 1..MAX_LINES
            /\ Len(fb) <= MAX_LINES
            /\ Len(fa) <= MAX_LINES
            /\ \A k \in 1..Len(fb) :
                   /\ fb[k].lineNumber <= Len(beforeLines)
                   /\ fb[k].content = beforeLines[fb[k].lineNumber]
            /\ \A k \in 1..Len(fa) :
                   /\ fa[k].lineNumber <= Len(afterLines)
                   /\ fa[k].content = afterLines[fa[k].lineNumber]
            /\ \A k \in 1..(Len(fb) - 1) : fb[k].lineNumber < fb[k + 1].lineNumber
            /\ \A k \in 1..(Len(fa) - 1) : fa[k].lineNumber < fa[k + 1].lineNumber

C10_Witness ==
    /\ Rendered
    /\ Len(beforeLines) > MAX_LINES
    /\ Len(afterLines) > MAX_LINES
    /\ beforeLines[MAX_LINES + 1] = <<"b">>
    /\ \A k \in 1..Len(diffLines) : diffLines[k].content # <<"b">>
    /\ Len(diffLines) = MAX_LINES

ShownDiff == Rendered /\ view = "diff"
\* the lines of a text prop as split counts them
LinesOf(text) == Split(OrElse(Default(text, <<>>), <<>>))

\* C11: the truncation notice is rendered exactly when a side has more than 500
\* lines, which is exactly when computeDiff dropped a line, and it names a line
\* count above 500 that is the line count of the longer text.
C11_Notice ==
    ShownDiff =>
        LET shown == NoticeShown(beforeLines, afterLines)
            lenB == Len(LinesOf(beforeCode))
            lenA == Len(LinesOf(afterCode))
        IN  /\ shown <=> (lenB > 500 \/ lenA > 500)
            /\ shown <=> (Len(before) < lenB \/ Len(after) < lenA)
            /\ shown => /\ NoticeLines(beforeLines, afterLines) > 500
                        /\ NoticeLines(beforeLines, afterLines) >= lenB
                        /\ NoticeLines(beforeLines, afterLines) >= lenA
                        /\ NoticeLines(beforeLines, afterLines) \in {lenB, lenA}

C11_Witness ==
    /\ ShownDiff
    /\ NoticeShown(beforeLines, afterLines)
    /\ Len(beforeLines) = 500
    /\ NoticeLines(beforeLines, afterLines) = 501

RecordAt(recs, t, n) ==
    \E k \in 1..Len(recs) : recs[k].type = t /\ recs[k].lineNumber = n

\* C12: both layouts show one diff: the split view highlights before line idx as
\* removed exactly when the unified diff has a removed record at that position,
\* and after line idx as added exactly when it has an added record there.
C12_OneSemantics ==
    ShownDiff =>
        LET sb == SplitBefore(beforeLines, afterLines)
            sa == SplitAfter(beforeLines, afterLines)
        IN  /\ \A idx \in 1..Len(sb) :
                   sb[idx].isRemoved <=> RecordAt(diffLines, "removed", idx)
            /\ \A idx \in 1..Len(sa) :
                   sa[idx].isAdded <=> RecordAt(diffLines, "added", idx)

\* C18: the statistics are the record counts per type, and deletions + unchanged
\* = min(len(before), 500), additions + unchanged = min(len(after), 500).
C18_Stats ==
    ShownDiff =>
        LET st == Stats(diffLines)
        IN  /\ st.additions + st.deletions + st.unchanged = Len(diffLines)
            /\ st.deletions + st.unchanged = Min(Len(LinesOf(beforeCode)), 500)
            /\ st.additions + st.unchanged = Min(Len(LinesOf(afterCode)), 500)

C18_Witness ==
    /\ ShownDiff
    /\ Stats(diffLines).additions > 0
    /\ Stats(diffLines).deletions = 500
    /\ Stats(diffLines).unchanged = 0
    /\ Len(beforeLines) > 500

\* C19: the panel height is min(min(max(len(before), len(after)), 500) * 24, 720)
\* pixels: never above 720, and 24 pixels per line of the longer side while that
\* side has at most 30 lines.
C19_PanelHeight ==
    ShownDiff =>
        LET m == Max(Len(LinesOf(beforeCode)), Len(LinesOf(afterCode)))
            h == PanelHeight(beforeLines, afterLines)
        IN  /\ h <= 720
            /\ m <= 30 => h = 24 * m
            /\ m > 30 => h = 720
            /\ h = Min(Min(m, 500) * 24, 720)

C19_Witness ==
    /\ ShownDiff
    /\ Len(beforeLines) = 30
    /\ Len(afterLines) = 31
    /\ PanelHeight(beforeLines, afterLines) = 720

\* C20: with both texts empty and a file name, the component shows a
\* content-unavailable message, not a diff with records and statistics.
C20_Unavailable ==
    (Rendered /\ OrElse(beforeCode, <<>>) = <<>> /\ OrElse(afterCode, <<>>) = <<>>
        /\ OrElse(fileName, <<>>) # <<>>) =>
        /\ view # "diff"
        /\ view # "skeleton"

\* C13: in the unified view an annotation on the line of an added record is
\* rendered under exactly one row, which is no removed row, and an annotation on
\* a line beyond the truncated range is rendered under no row.
C13_AnnotationOnce ==
    (ShownDiff /\ viewMode = "unified") =>
        LET rows == UnifiedRows(diffLines, annotations)
            anns == annotations
            under(a) == {idx \in 1..Len(rows) : rows[idx].annotation = <<a>>}
        IN  \A k \in 1..Len(anns) :
                /\ RecordAt(diffLines, "added", anns[k].line) =>
                       /\ Cardinality(under(anns[k])) = 1
                       /\ \A idx \in under(anns[k]) : rows[idx].line.type # "removed"
                /\ anns[k].line > MAX_LINES => under(anns[k]) = {}

Occurrences(lines, x) == Cardinality({k \in 1..Len(lines) : lines[k] = x})
IsReordering(x, y) ==
    /\ Len(x) = Len(y)
    /\ \A k \in 1..Len(x) : Occurrences(x, x[k]) = Occurrences(y, x[k])

\* C16: in the diff of the inline loop every added record carries a line of
\* after that occurs nowhere in before, and when after is a reordering of before
\* there is no added and no removed record.
C16_AddedAbsent ==
    ShownDiff =>
        /\ \A k \in 1..Len(diffLines) :
               diffLines[k].type = "added" =>
                   /\ Includes(afterLines, diffLines[k].content)
                   /\ ~Includes(beforeLines, diffLines[k].content)
        /\ IsReordering(beforeLines, afterLines) =>
               AllOfType(diffLines, "unchanged")

\* the lines of before that occur nowhere in after, in before order
AbsentFromAfter == SelectSeq(beforeLines, LAMBDA l : ~Includes(afterLines, l))

\* C17, of the loops that end: the removed records are the lines of before that
\* occur nowhere in after, each once, in before order.
C17_RemovedWhenEnded ==
    ShownDiff => Contents(OfType(diffLines, {"removed"})) = AbsentFromAfter

computeDiff(b0, a0) ==
    LET b == Slice(Split(OrElse(b0, <<>>)), MAX_LINES)
        a == Slice(Split(OrElse(a0, <<>>)), MAX_LINES)
        m == Max(Len(b), Len(a))
        slots == [k \in 1..(2 * m) |-> <<(k - 1) \div 2, ((k - 1) % 2) + 1>>]
        pushed == SelectSeq(slots, LAMBDA s : s[2] <= Len(ForBody(b, a, s[1])))
    IN  [k \in 1..Len(pushed) |-> ForBody(b, a, pushed[k][1])[pushed[k][2]]]

\* C14: whatever props came before, the diffLines a render uses are computeDiff
\* of the current beforeCode and afterCode; the memo serves no earlier result.
C14_MemoCurrent ==
    Rendered => diffLines = computeDiff(deps[1], deps[2])

\* a render after the props changed: the diff shown before was another one
C14_Witness ==
    /\ Rendered
    /\ remembered # <<>>
    /\ <<remembered[1], remembered[2]>> # deps
    /\ remembered[3] # diffLines
    /\ diffLines = computeDiff(deps[1], deps[2])

\* a render served from the memo: the props came again as they were
C14_WitnessHit ==
    /\ Rendered
    /\ remembered # <<>>
    /\ <<remembered[1], remembered[2]>> = deps
    /\ Len(diffLines) > 1

\* C15: computeDiff keeps no state between calls: a call returns what an
\* earlier call with equal arguments returned, whatever was called before or in
\* between, and while a call runs its arguments stay as they were passed.
C15_NoStateBetweenCalls ==
    /\ [](/\ pc = "idle"
          /\ remembered # <<>>
          /\ remembered[1] = beforeCode
          /\ remembered[2] = afterCode
          => returned = remembered[3])
    /\ [][pc = "for" => beforeCode' = beforeCode /\ afterCode' = afterCode]_vars

\* a call has returned what an earlier call with the same arguments returned
C15_Witness ==
    /\ pc = "idle"
    /\ remembered # <<>>
    /\ remembered[1] = beforeCode
    /\ remembered[2] = afterCode
    /\ returned = remembered[3]
    /\ Len(returned) > 1

\* C21: in computeDiff's result the positions never decrease, every position
\* from 1 to the larger length of the two truncated sides occurs once or twice,
\* and twice only as a removed record immediately followed by an added one.
\* (Positions that never decrease, start at 1, end at the larger length and
\* grow by at most 1 cover every position; a repeated position being removed
\* then added rules out a third occurrence.)
C21_Positions ==
    Rendered =>
        LET r == diffLines
            m == Max(Min(Len(beforeLines), MAX_LINES),
                     Min(Len(afterLines), MAX_LINES))
        IN  /\ Len(r) >= 1
            /\ r[1].lineNumber = 1
            /\ r[Len(r)].lineNumber = m
            /\ \A k \in 1..(Len(r) - 1) :
                   /\ r[k + 1].lineNumber - r[k].lineNumber \in {0, 1}
                   /\ r[k + 1].lineNumber = r[k].lineNumber =>
                          r[k].type = "removed" /\ r[k + 1].type = "added"

\* a result where one position occurs twice and another once
C21_Witness ==
    /\ Rendered
    /\ Len(diffLines) >= 3
    /\ \E k \in 1..(Len(diffLines) - 1) :
           diffLines[k + 1].lineNumber = diffLines[k].lineNumber
    /\ HasType(diffLines, "unchanged")

\* C22: at every step of the inline loop beforeIdx <= len(beforeLines) and
\* afterIdx <= len(afterLines), every added or unchanged record has a
\* lineNumber within afterLines and the after line of that position as content,
\* and every removed record has a lineNumber within beforeLines and that
\* before line as content.
C22_WithinBounds ==
    pc \in {"while", "rendered"} =>
        /\ beforeIdx <= Len(beforeLines)
        /\ afterIdx <= Len(afterLines)
        /\ \A k \in 1..Len(diffLines) :
               LET rec == diffLines[k]
               IN  IF rec.type = "removed"
                   THEN /\ rec.lineNumber <= Len(beforeLines)
                        /\ rec.content = beforeLines[rec.lineNumber]
                   ELSE /\ rec.lineNumber <= Len(afterLines)
                        /\ rec.content = afterLines[rec.lineNumber]

\* a prop that is empty or absent
Empty(prop) == prop \in {Undefined, Null, <<>>}

C23_WitnessSkeleton ==
    /\ Rendered
    /\ view = "skeleton"
    /\ beforeCode = Null

StoredRepo == localStorage["gitstory-repo"]
Defined(ids) == SelectSeq(ids, LAMBDA id : id \in ThreadIds)

\* C24: after a successful import made while a thread is current, once the
\* thread-switch effect has run for the thread that startNewThread made
\* current (another id than before), localStorage still holds the imported
\* owner/repo/branch under gitstory-repo.
C24_ImportSurvives ==
    LET n == Len(seenIds)
    IN  (/\ imported # <<>>
         /\ importPc = "idle"
         /\ effectDeps = threadId
         /\ n >= 2
         /\ seenIds[n] \in ThreadIds
         /\ seenIds[n - 1] \in ThreadIds
         /\ seenIds[n] # seenIds[n - 1])
        => StoredRepo = imported

\* C25: a run of the thread-switch effect removes gitstory-repo and dispatches
\* gitstory-repo-changed with null detail exactly when the thread id is defined
\* and differs from the defined id the effect saw last before; it changes
\* neither localStorage nor the dispatched events on the first id after mount,
\* on an undefined id, or on the id it saw last.
C25_ClearsOnSwitch ==
    [][ThreadEffect =>
          LET earlier == Defined(seenIds)
          IN  IF /\ threadId \in ThreadIds
                 /\ earlier # <<>>
                 /\ earlier[Len(earlier)] # threadId
              THEN /\ localStorage' = [localStorage EXCEPT !["gitstory-repo"] = <<>>]
                   /\ dispatched' = Append(dispatched,
                          CustomEvent("gitstory-repo-changed", <<>>))
              ELSE UNCHANGED <<localStorage, dispatched>>]_vars

\* the effect has cleared a stored repository on a switch, and has run for a
\* first id without clearing
C25_Witness ==
    /\ Len(Defined(seenIds)) >= 2
    /\ Len(dispatched) = 3
    /\ dispatched[3] = CustomEvent("gitstory-repo-changed", <<>>)
    /\ StoredRepo = <<>>

\* a text handleImport can import: a host name with github.com in it and at
\* least two non-empty path segments
GitHubRepoUrl(u) ==
    /\ u.host # <<>>
    /\ \A k \in 1..Len(u.host) : u.host[k] # "not a url"
    /\ \E k \in 1..(Len(u.host) - 1) : u.host[k] = "github" /\ u.host[k + 1] = "com"
    /\ Cardinality({k \in 1..Len(u.path) : u.path[k] # <<>>}) >= 2

\* C26: handleImport with a blank or unparseable URL sets an error message and
\* changes nothing else (no localStorage write, no event, modal open,
\* isImporting false); and whenever handleImport has finished isImporting is
\* false.
C26_RejectedImport ==
    /\ [](importPc = "idle" => isImporting = FALSE)
    /\ [][(handleImport /\ (Blank(url) \/ ~GitHubRepoUrl(url))) =>
             /\ error' # <<>>
             /\ importPc' = "idle"
             /\ isImporting' = FALSE
             /\ isOpen'
             /\ UNCHANGED <<localStorage, dispatched, url, threadVars>>]_vars

\* an unparseable URL has been rejected, after an import that went through
C26_Witness ==
    /\ error = <<"Invalid GitHub URL">>
    /\ importPc = "idle"
    /\ isOpen
    /\ ~GitHubRepoUrl(url)
    /\ StoredRepo # <<>>
    /\ Len(dispatched) = 2

\* C27: at most one file-diff request is in flight: a file click made while an
\* earlier one is pending sets no message and submits nothing, loadingFile is
\* set while a file request is pending and null again once it has settled.
C27_OneFileRequest ==
    /\ [](/\ Len(InFlight("file")) <= 1
          /\ loadingFile = Null <=> InFlight("file") = <<>>)
    /\ [][(handleFileClick /\ InFlight("file") # <<>>) =>
             UNCHANGED <<value, submitted, handlers>>]_vars

\* a second file request has been sent after the first one settled, and is
\* pending
C27_Witness ==
    /\ Len(InFlight("file")) = 1
    /\ InFlight("file")[1].pc = "submitting"
    /\ loadingFile # Null
    /\ Len(submitted) = 2
    /\ submitted[1].composed[1] = "Show me the diff for"
    /\ submitted[2].composed[1] = "Show me the diff for"

\* C28: every message submit sends is the message composed by the click whose
\* handler calls submit, and no text is sent twice.
C28_OwnMessage ==
    /\ \A k \in 1..Len(submitted) : submitted[k].sent = submitted[k].composed
    /\ \A j, k \in 1..Len(submitted) :
           j # k => submitted[j].sent # submitted[k].sent

\* an access token, and a repository, are stored
HasToken ==
    /\ localStorage["gitstory-auth"] # <<>>
    /\ IsJson(localStorage["gitstory-auth"][1])
    /\ localStorage["gitstory-auth"][1].accessToken # ""
HasRepo ==
    /\ localStorage["gitstory-repo"] # <<>>
    /\ IsJson(localStorage["gitstory-repo"][1])
    /\ localStorage["gitstory-repo"][1].owner # <<>>
    /\ localStorage["gitstory-repo"][1].repo # <<>>

\* C29: each of the four tools returns a result on every path, issues no
\* request unless a token and a repository are stored, reports the missing
\* token before the missing repository, and its result has data exactly when
\* success is true and error exactly when success is false.
C29_ToolResults ==
    /\ [](/\ requests > 0 => HasToken /\ HasRepo
          /\ toolPc # "idle" => HasToken /\ HasRepo
          /\ (toolPc = "idle" /\ tool.name # "none") =>
                 /\ Len(toolResult) = 1
                 /\ toolResult[1].success <=> toolResult[1].data # <<>>
                 /\ ~toolResult[1].success <=> toolResult[1].error # <<>>
                 /\ ~HasToken =>
                        toolResult[1] = Failure("Not authenticated with GitHub")
                 /\ (HasToken /\ ~HasRepo) =>
                        toolResult[1] = Failure("No repository imported"))
    /\ [][toolPc = "fetch" => toolPc' = "idle" /\ Len(toolResult') = 1]_vars

\* getRecentCommits has returned commits after two requests
C29_Witness ==
    /\ toolPc = "idle"
    /\ tool.name = "getRecentCommits"
    /\ requests = 2
    /\ toolResult = <<Success("commits")>>

\* a tool has returned the missing-token error with no repository stored
C29_WitnessNoToken ==
    /\ toolPc = "idle"
    /\ tool.name # "none"
    /\ ~HasToken /\ ~HasRepo
    /\ requests = 0

====
